---- MODULE Spec2Model ----
(***************************************************************************)
(* A model of psycopg/_queries.py: the placeholder scanner (_split_query), *)
(* the server-bind and client-bind assemblers (_query2pg_nocache,          *)
(* _query2pg_client_nocache), the parameter validator                      *)
(* (validate_and_reorder_params), the two memoized entry points (_query2pg *)
(* and _query2pg_client) and the convert/dump methods of PostgresQuery and *)
(* PostgresClientQuery.                                                    *)
(*                                                                         *)
(* Bytes are sequences of one-character strings.  Two characters stand for *)
(* the bytes 0xC3 and 0xA9 (the UTF-8 encoding of U+00E9), and the element *)
(* PAD stands for a run of PadLen bytes 'x', so that statements around the *)
(* 4096 byte threshold can be written down.  Decoded text (str) is a       *)
(* sequence of characters too, with "U+E9", "U+C3", "U+A9" for the         *)
(* non-ASCII code points.                                                  *)
(***************************************************************************)
EXTENDS Integers, Sequences, FiniteSets, TLC

\* ------------------------------------------------------------ constants

MAX_CACHED_STATEMENT_LENGTH == 4096
MAX_CACHED_STATEMENT_PARAMS == 50

\* functools.lru_cache() default maxsize, as the comment on _query2pg says
LRU_MAXSIZE == 128

\* PyFormat members
AUTO == "s"
TEXT == "t"
BINARY == "b"

PAD == "xPAD"
PadLen == MAX_CACHED_STATEMENT_LENGTH - 2

\* len() of one element of a bytes value
ByteLen(c) == IF c = PAD THEN PadLen ELSE 1

RECURSIVE BytesLen(_)
BytesLen(bs) == IF bs = <<>> THEN 0 ELSE ByteLen(Head(bs)) + BytesLen(Tail(bs))

RECURSIVE Concat(_)
Concat(ss) == IF ss = <<>> THEN <<>> ELSE Head(ss) \o Concat(Tail(ss))

\* b"%d" % n for n >= 0
Digit(n) == CASE n = 0 -> "0" [] n = 1 -> "1" [] n = 2 -> "2" [] n = 3 -> "3"
              [] n = 4 -> "4" [] n = 5 -> "5" [] n = 6 -> "6" [] n = 7 -> "7"
              [] n = 8 -> "8" [] OTHER -> "9"

RECURSIVE Decimal(_)
Decimal(n) == IF n < 10 THEN << Digit(n) >> ELSE Decimal(n \div 10) \o << Digit(n % 10) >>

\* ------------------------------------------------------------ decoding

\* bytes.decode("latin-1"): every byte is the code point of the same number
DecodeLatin1(bs) ==
  [ok |-> TRUE,
   s |-> [i \in 1..Len(bs) |-> CASE bs[i] = "0xC3" -> "U+C3"
                                  [] bs[i] = "0xA9" -> "U+A9"
                                  [] OTHER -> bs[i]]]

\* bytes.decode("utf-8") on the modelled alphabet: 0xC3 0xA9 is U+00E9, a
\* lone 0xC3 or 0xA9 raises UnicodeDecodeError
RECURSIVE DecodeUtf8(_)
DecodeUtf8(bs) ==
  IF bs = <<>> THEN [ok |-> TRUE, s |-> <<>>]
  ELSE IF Head(bs) = "0xC3"
    THEN IF Len(bs) >= 2 /\ bs[2] = "0xA9"
           THEN LET r == DecodeUtf8(Tail(Tail(bs)))
                IN [ok |-> r.ok, s |-> << "U+E9" >> \o r.s]
           ELSE [ok |-> FALSE, s |-> <<>>]
  ELSE IF Head(bs) = "0xA9" THEN [ok |-> FALSE, s |-> <<>>]
  ELSE LET r == DecodeUtf8(Tail(bs))
       IN [ok |-> r.ok, s |-> << Head(bs) >> \o r.s]

Decode(bs, encoding) ==
  IF encoding = "latin-1" THEN DecodeLatin1(bs) ELSE DecodeUtf8(bs)

\* ------------------------------------------------------------ QueryPart

IntItem(i) == [int |-> TRUE, idx |-> i, name |-> <<>>]
StrItem(s) == [int |-> FALSE, idx |-> 0, name |-> s]

QueryPart(pre, item, format) == [pre |-> pre, item |-> item, format |-> format]

\* ------------------------------------------------------------ _re_placeholder

NoMatch == [has |-> FALSE, ph |-> <<>>, g1 |-> <<>>, start |-> 0, end |-> 0]

RECURSIVE FirstClose(_, _)
FirstClose(q, j) ==
  IF j > Len(q) THEN 0 ELSE IF q[j] = ")" THEN j ELSE FirstClose(q, j + 1)

\* _re_placeholder.match at position i: '%', then either '(' name ')' and one
\* character, or one character; '.' matches no newline
MatchAt(q, i) ==
  IF i > Len(q) \/ q[i] # "%" THEN NoMatch
  ELSE LET k == IF i + 2 <= Len(q) /\ q[i + 1] = "(" /\ q[i + 2] # ")"
                  THEN FirstClose(q, i + 3) ELSE 0
       IN IF k > 0 /\ k + 1 <= Len(q) /\ q[k + 1] # "\n"
            THEN [has |-> TRUE, ph |-> SubSeq(q, i, k + 1),
                  g1 |-> SubSeq(q, i + 2, k - 1), start |-> i, end |-> k + 1]
          ELSE IF i + 1 <= Len(q) /\ q[i + 1] # "\n"
            THEN [has |-> TRUE, ph |-> SubSeq(q, i, i + 1),
                  g1 |-> <<>>, start |-> i, end |-> i + 1]
          ELSE NoMatch

\* the first loop of _split_query: the pairs (fragment, match) of
\* _re_placeholder.finditer(query), the last match None
RECURSIVE FindParts(_, _, _)
FindParts(q, cur, i) ==
  IF i > Len(q) THEN << [pre |-> SubSeq(q, cur, Len(q)), m |-> NoMatch] >>
  ELSE LET m == MatchAt(q, i)
       IN IF ~m.has THEN FindParts(q, cur, i + 1)
          ELSE << [pre |-> SubSeq(q, cur, i - 1), m |-> m] >>
               \o FindParts(q, m.end + 1, m.end + 1)

\* ------------------------------------------------------------ _split_query

Ok(parts) == [ok |-> TRUE, err |-> "", parts |-> parts]
Err(e) == [ok |-> FALSE, err |-> e, parts |-> <<>>]

IsSpace(c) == c \in {" ", "\n"}

\* query[start:].split()[0]
RECURSIVE WordFrom(_, _)
WordFrom(q, i) ==
  IF i > Len(q) \/ IsSpace(q[i]) THEN <<>> ELSE << q[i] >> \o WordFrom(q, i + 1)

\* the second loop of _split_query, i counted from 1
RECURSIVE SplitLoop(_, _, _, _, _, _, _)
SplitLoop(query, encoding, collapse, parts, i, phtype, rv) ==
  IF i > Len(parts) THEN Ok(rv)
  ELSE
    LET pre == parts[i].pre
        m == parts[i].m
    IN
    IF ~m.has THEN Ok(Append(rv, QueryPart(pre, IntItem(0), AUTO)))
    ELSE IF m.ph = << "%", "%" >> THEN
      LET ph == IF collapse THEN << "%" >> ELSE m.ph
          merged == [pre |-> pre \o ph \o parts[i + 1].pre, m |-> parts[i + 1].m]
          parts2 == [k \in 1..(Len(parts) - 1) |->
                       IF k < i THEN parts[k]
                       ELSE IF k = i THEN merged ELSE parts[k + 1]]
      IN SplitLoop(query, encoding, collapse, parts2, i, phtype, rv)
    ELSE IF m.ph = << "%", "(" >> THEN
      IF Decode(WordFrom(query, m.start), encoding).ok
        THEN Err("incomplete placeholder") ELSE Err("UnicodeDecodeError")
    ELSE IF m.ph = << "%", " " >> THEN Err("incomplete placeholder: '%'")
    ELSE IF m.ph[Len(m.ph)] \notin {"s", "b", "t"} THEN
      IF Decode(m.ph, encoding).ok
        THEN Err("only '%s', '%b', '%t' are allowed") ELSE Err("UnicodeDecodeError")
    ELSE
      LET named == m.g1 # <<>>
          dec == Decode(m.g1, encoding)
          item == IF named THEN StrItem(dec.s) ELSE IntItem(i - 1)
          ty == IF named THEN "str" ELSE "int"
      IN IF named /\ ~dec.ok THEN Err("UnicodeDecodeError")
         ELSE IF phtype # "" /\ phtype # ty
           THEN Err("positional and named placeholders cannot be mixed")
         ELSE SplitLoop(query, encoding, collapse, parts, i + 1, ty,
                        Append(rv, QueryPart(pre, item, m.ph[Len(m.ph)])))

_split_query(query, encoding, collapse_double_percent) ==
  SplitLoop(query, encoding, collapse_double_percent,
            FindParts(query, 1, 1), 1, "", <<>>)

\* ------------------------------------------------------------ _query2pg_nocache

NoOrder == [none |-> TRUE, names |-> <<>>]
Order(names) == [none |-> FALSE, names |-> names]

Pg(query, formats, order, parts) ==
  [ok |-> TRUE, err |-> "", query |-> query, formats |-> formats,
   order |-> order, parts |-> parts]
PgErr(e) ==
  [ok |-> FALSE, err |-> e, query |-> <<>>, formats |-> <<>>,
   order |-> NoOrder, parts |-> <<>>]

\* a marker numbered from 0
MarkerFromZero(n) == << "$" >> \o Decimal(n - 1)

\* b"$%d" % n
Marker(n) == << "$" >> \o Decimal(n)

\* the positional loop: chunks and formats of parts[:-1]
RECURSIVE PgPositional(_, _)
PgPositional(parts, k) ==
  IF k >= Len(parts) THEN [chunks |-> <<>>, formats |-> <<>>]
  ELSE LET r == PgPositional(parts, k + 1)
       IN [chunks |-> parts[k].pre \o Marker(parts[k].item.idx + 1) \o r.chunks,
           formats |-> << parts[k].format >> \o r.formats]

\* seen: the dict of the named loop, a sequence of entries in insertion order
\* a dict that finds no name
SeenNothing(seen, name) == FALSE

SeenHas(seen, name) == \E j \in 1..Len(seen) : seen[j].name = name
SeenGet(seen, name) == seen[CHOOSE j \in 1..Len(seen) : seen[j].name = name]

\* the named loop of _query2pg_nocache from part k on
RECURSIVE PgNamed(_, _, _, _, _, _)
PgNamed(parts, k, seen, chunks, formats, order) ==
  IF k >= Len(parts)
    THEN [ok |-> TRUE, chunks |-> chunks, formats |-> formats, order |-> order]
  ELSE
    LET part == parts[k]
    IN IF ~SeenHas(seen, part.item.name)
         THEN LET ph == Marker(Len(seen) + 1)
              IN PgNamed(parts, k + 1,
                         Append(seen, [name |-> part.item.name, ph |-> ph,
                                       format |-> part.format]),
                         chunks \o part.pre \o ph,
                         Append(formats, part.format),
                         Append(order, part.item.name))
       ELSE IF SeenGet(seen, part.item.name).format # part.format
         THEN [ok |-> FALSE, chunks |-> <<>>, formats |-> <<>>, order |-> <<>>]
       ELSE PgNamed(parts, k + 1, seen,
                    chunks \o part.pre \o SeenGet(seen, part.item.name).ph,
                    formats, order)

\* the end of _query2pg_nocache: the last part appended, the tuple returned
PgPositionalResult(parts, r) ==
  Pg(r.chunks \o parts[Len(parts)].pre, r.formats, NoOrder, parts)

PgNamedResult(parts, r) ==
  IF ~r.ok THEN PgErr("placeholder cannot have different formats")
  ELSE Pg(r.chunks \o parts[Len(parts)].pre, r.formats, Order(r.order), parts)

\* _query2pg_nocache after parts = _split_query(query, encoding)
PgAssemble(sp) ==
  IF ~sp.ok THEN PgErr(sp.err)
  ELSE IF sp.parts[1].item.int
    THEN PgPositionalResult(sp.parts, PgPositional(sp.parts, 1))
  ELSE PgNamedResult(sp.parts, PgNamed(sp.parts, 1, <<>>, <<>>, <<>>, <<>>))

_query2pg_nocache(query, encoding) ==
  PgAssemble(_split_query(query, encoding, TRUE))

\* ------------------------------------------------------------ _query2pg_client_nocache

PgClient(template, order, parts) ==
  [ok |-> TRUE, err |-> "", template |-> template, order |-> order, parts |-> parts]
PgClientErr(e) ==
  [ok |-> FALSE, err |-> e, template |-> <<>>, order |-> NoOrder, parts |-> <<>>]

\* either loop of _query2pg_client_nocache: every placeholder becomes b"%s"
RECURSIVE ClientChunks(_, _)
ClientChunks(parts, k) ==
  IF k >= Len(parts) THEN <<>>
  ELSE parts[k].pre \o << "%", "s" >> \o ClientChunks(parts, k + 1)

\* the order list of the named loop: one entry per part, repeats included
ClientOrder(parts) == [k \in 1..(Len(parts) - 1) |-> parts[k].item.name]

\* _query2pg_client_nocache after parts = _split_query(query, encoding, False)
PgClientAssemble(sp) ==
  IF ~sp.ok THEN PgClientErr(sp.err)
  ELSE IF sp.parts[1].item.int
    THEN PgClient(ClientChunks(sp.parts, 1) \o sp.parts[Len(sp.parts)].pre,
                  NoOrder, sp.parts)
  ELSE PgClient(ClientChunks(sp.parts, 1) \o sp.parts[Len(sp.parts)].pre,
                Order(ClientOrder(sp.parts)), sp.parts)

_query2pg_client_nocache(query, encoding) ==
  PgClientAssemble(_split_query(query, encoding, FALSE))

\* ------------------------------------------------------------ Optional values

None == [none |-> TRUE, v |-> <<>>]
Some(x) == [none |-> FALSE, v |-> x]

\* ------------------------------------------------------------ Params
\* A params value: an ordered sequence ("seq": items), a mapping ("map":
\* keys[i] maps to items[i], the keys distinct), a text value ("str": items
\* are its characters) or None ("none").  A parameter is "1", "2" or "None".

NoVars == [shape |-> "none", items |-> <<>>, keys |-> <<>>]
SeqVars(items) == [shape |-> "seq", items |-> items, keys |-> <<>>]
MapVars(keys, items) == [shape |-> "map", items |-> items, keys |-> keys]
StrVars(chars) == [shape |-> "str", items |-> chars, keys |-> <<>>]

\* len(vars)
VarsLen(vars) == Len(vars.items)

MapHas(vars, name) == \E j \in 1..Len(vars.keys) : vars.keys[j] = name
MapGet(vars, name) == vars.items[CHOOSE j \in 1..Len(vars.keys) : vars.keys[j] = name]

\* ------------------------------------------------------------ validate_and_reorder_params

Valid(params) == [ok |-> TRUE, err |-> "", params |-> params]
Invalid(e) == [ok |-> FALSE, err |-> e, params |-> <<>>]

E_SHAPE == "TypeError: query parameters should be a sequence or a mapping"
E_COUNT == "ProgrammingError: the query has N placeholders but M parameters were passed"
E_NAMED == "TypeError: named placeholders require a mapping of parameters"
E_POSITIONAL == "TypeError: positional placeholders (%s) require a sequence of parameters"
E_MISSING == "ProgrammingError: query parameter missing"

validate_and_reorder_params(parts, vars, order) ==
  IF vars.shape = "seq" THEN
    IF VarsLen(vars) # Len(parts) - 1 THEN Invalid(E_COUNT)
    ELSE IF VarsLen(vars) > 0 /\ ~parts[1].item.int THEN Invalid(E_NAMED)
    ELSE Valid(vars.items)
  ELSE IF vars.shape = "map" THEN
    IF VarsLen(vars) > 0 /\ Len(parts) > 1 /\ parts[1].item.int
      THEN Invalid(E_POSITIONAL)
    ELSE IF ~order.none /\ order.names # <<>> THEN
      IF \E j \in 1..Len(order.names) : ~MapHas(vars, order.names[j])
        THEN Invalid(E_MISSING)
      ELSE Valid([j \in 1..Len(order.names) |-> MapGet(vars, order.names[j])])
    ELSE Valid(<<>>)
  ELSE Invalid(E_SHAPE)

\* ------------------------------------------------------------ Transformer
\* The value transformer is outside this file: dump_sequence turns the
\* aligned values into wire values under the wanted formats and leaves the
\* type identifiers and wire formats in the transformer; as_literal renders
\* one value as a literal.

PQ_TEXT == "pq.TEXT"
PQ_BINARY == "pq.BINARY"

PqFormat(format) == IF format = BINARY THEN PQ_BINARY ELSE PQ_TEXT
Oid(p) == IF p = "None" THEN 0 ELSE 20
Wire(p, format) ==
  IF p = "None" THEN None
  ELSE Some(IF format = BINARY THEN << "bin", p >> ELSE << p >>)

dump_sequence(params, formats) ==
  IF \E i \in 1..Len(params) : params[i] # "None" /\ i > Len(formats)
    THEN [ok |-> FALSE, err |-> "IndexError", out |-> <<>>, types |-> <<>>,
          formats |-> <<>>]
  ELSE [ok |-> TRUE, err |-> "",
        out |-> [i \in 1..Len(params) |->
                   IF params[i] = "None" THEN None ELSE Wire(params[i], formats[i])],
        types |-> [i \in 1..Len(params) |-> Oid(params[i])],
        formats |-> [i \in 1..Len(params) |->
                       IF params[i] = "None" THEN PQ_TEXT ELSE PqFormat(formats[i])]]

as_literal(p) == << "'", p, "'" >>

\* self._tx.as_literal(p) if p is not None else b"NULL"
Literal(p) == IF p = "None" THEN << "N", "U", "L", "L" >> ELSE as_literal(p)

\* ------------------------------------------------------------ bytes % tuple
\* template % params of PostgresClientQuery.dump: '%%' gives '%', '%s' takes
\* the next argument, any other or an unfinished conversion raises, and so do
\* arguments left over

Fmt(bytes) == [ok |-> TRUE, err |-> "", bytes |-> bytes]
FmtErr(e) == [ok |-> FALSE, err |-> e, bytes |-> <<>>]

RECURSIVE BytesMod(_, _, _)
BytesMod(t, i, args) ==
  IF i > Len(t) THEN
    IF args = <<>> THEN Fmt(<<>>)
    ELSE FmtErr("TypeError: not all arguments converted during bytes formatting")
  ELSE IF t[i] # "%" THEN
    LET r == BytesMod(t, i + 1, args)
    IN IF r.ok THEN Fmt(<< t[i] >> \o r.bytes) ELSE r
  ELSE IF i = Len(t) THEN FmtErr("ValueError: incomplete format")
  ELSE IF t[i + 1] = "%" THEN
    LET r == BytesMod(t, i + 2, args)
    IN IF r.ok THEN Fmt(<< "%" >> \o r.bytes) ELSE r
  ELSE IF args = <<>> THEN FmtErr("TypeError: not enough arguments for format string")
  ELSE IF t[i + 1] = "s" THEN
    LET r == BytesMod(t, i + 2, Tail(args))
    IN IF r.ok THEN Fmt(Head(args) \o r.bytes) ELSE r
  ELSE FmtErr("ValueError: unsupported format character")

\* ------------------------------------------------------------ the objects
\* A PostgresQuery or PostgresClientQuery as __init__ leaves it.  _parts and
\* template are slots __init__ does not set: reading them before convert has
\* set them raises AttributeError (has_parts).  tx_types and tx_formats are
\* the transformer's.

NewQuery(cls, encoding) ==
  [cls |-> cls, encoding |-> encoding,
   query |-> <<>>, params |-> None, types |-> <<>>, formats |-> None,
   want_formats |-> None, order |-> NoOrder,
   has_parts |-> FALSE, parts |-> <<>>, template |-> <<>>,
   tx_types |-> None, tx_formats |-> None]

\* the attributes convert and dump document as their results
Outputs(o) ==
  [query |-> o.query, params |-> o.params, types |-> o.types, formats |-> o.formats]

Done(o) == [raised |-> FALSE, err |-> "", obj |-> o]
Raised(e, o) == [raised |-> TRUE, err |-> e, obj |-> o]

\* PostgresQuery.dump after d = self._tx.dump_sequence(params, self._want_formats)
PgDumped(o, d) ==
  IF ~d.ok THEN Raised(d.err, o)
  ELSE Done([o EXCEPT !.tx_types = Some(d.types),
                      !.tx_formats = Some(d.formats),
                      !.params = Some(d.out),
                      !.types = d.types,
                      !.formats = Some(d.formats)])

\* a dump that keeps the params of the first binding
PgValidatedOnce(o, v) ==
  IF ~v.ok THEN Raised(v.err, o)
  ELSE IF ~o.params.none THEN Done(o)
  ELSE PgDumped(o, dump_sequence(v.params, o.want_formats.v))

\* PostgresQuery.dump after v = self.validate_and_reorder_params(...)
PgValidated(o, v) ==
  IF ~v.ok THEN Raised(v.err, o)
  ELSE IF o.want_formats.none THEN Raised("AssertionError", o)
  ELSE PgDumped(o, dump_sequence(v.params, o.want_formats.v))

\* PostgresQuery.dump
PostgresQuery_dump(o, vars) ==
  IF vars.shape # "none" THEN
    IF ~o.has_parts THEN Raised("AttributeError: _parts", o)
    ELSE PgValidated(o, validate_and_reorder_params(o.parts, vars, o.order))
  ELSE Done([o EXCEPT !.params = None, !.types = <<>>, !.formats = None])

\* PostgresClientQuery.dump after self.params is set: f = self.template % self.params
ClientFormatted(o1, f) ==
  IF ~f.ok THEN Raised(f.err, o1) ELSE Done([o1 EXCEPT !.query = f.bytes])

\* PostgresClientQuery.dump from self.params = tuple(...) on
ClientLiterals(o, params) ==
  ClientFormatted([o EXCEPT !.params = Some(params)], BytesMod(o.template, 1, params))

\* PostgresClientQuery.dump after v = self.validate_and_reorder_params(...)
ClientValidated(o, v) ==
  IF ~v.ok THEN Raised(v.err, o)
  ELSE ClientLiterals(o, [i \in 1..Len(v.params) |-> Literal(v.params[i])])

\* PostgresClientQuery.dump
PostgresClientQuery_dump(o, vars) ==
  IF vars.shape # "none" THEN
    IF ~o.has_parts THEN Raised("AttributeError: _parts", o)
    ELSE ClientValidated(o, validate_and_reorder_params(o.parts, vars, o.order))
  ELSE Done([o EXCEPT !.params = None])

dump(o, vars) ==
  IF o.cls = "PostgresQuery" THEN PostgresQuery_dump(o, vars)
  ELSE PostgresClientQuery_dump(o, vars)

\* ------------------------------------------------------------ lru_cache
\* _query2pg = lru_cache()(_query2pg_nocache) and _query2pg_client likewise:
\* a table keyed by the call's arguments (query, encoding), at most
\* LRU_MAXSIZE entries, the least recently used first.  A call that raises
\* stores nothing.

\* a key made of the query alone
CacheKeyOfQuery(query, encoding) == [query |-> query, encoding |-> "utf-8"]

CacheKey(query, encoding) == [query |-> query, encoding |-> encoding]

CacheIndex(cache, key) ==
  IF \E j \in 1..Len(cache) : cache[j].key = key
    THEN CHOOSE j \in 1..Len(cache) : cache[j].key = key
  ELSE 0

\* a hit makes the entry the most recently used
CacheTouch(cache, j) ==
  [k \in 1..Len(cache) |->
     IF k < j THEN cache[k] ELSE IF k < Len(cache) THEN cache[k + 1] ELSE cache[j]]

\* the insertion after the wrapped function returned: nothing when the key
\* was stored meanwhile, else the oldest entry makes room in a full table
CacheInsert(cache, key, val) ==
  IF CacheIndex(cache, key) > 0 THEN cache
  ELSE IF Len(cache) >= LRU_MAXSIZE
    THEN Append(Tail(cache), [key |-> key, val |-> val])
  ELSE Append(cache, [key |-> key, val |-> val])

\* the lookup found entry j
CacheHit(cache, j) ==
  [res |-> cache[j].val, cache |-> CacheTouch(cache, j), outcome |-> "hit"]

\* the lookup found nothing and the wrapped function gave val
CacheMiss(cache, key, val) ==
  IF val.ok
    THEN [res |-> val, cache |-> CacheInsert(cache, key, val), outcome |-> "miss"]
  ELSE [res |-> val, cache |-> cache, outcome |-> "miss"]

\* one whole call of a memoized function whose uncached result is val
MemoCall(cache, key, val) ==
  IF CacheIndex(cache, key) > 0 THEN CacheHit(cache, CacheIndex(cache, key))
  ELSE CacheMiss(cache, key, val)

_query2pg(cache, query, encoding) ==
  MemoCall(cache, CacheKey(query, encoding), _query2pg_nocache(query, encoding))

_query2pg_client(cache, query, encoding) ==
  MemoCall(cache, CacheKey(query, encoding), _query2pg_client_nocache(query, encoding))

Bypass(cache, val) == [res |-> val, cache |-> cache, outcome |-> "bypass"]

\* ------------------------------------------------------------ convert

\* a test that turns away a query of exactly the threshold length
CacheableBelow(bquery, vars) ==
  /\ BytesLen(bquery) < MAX_CACHED_STATEMENT_LENGTH
  /\ VarsLen(vars) <= MAX_CACHED_STATEMENT_PARAMS

\* the test convert makes before it picks the memoized function
Cacheable(bquery, vars) ==
  /\ BytesLen(bquery) <= MAX_CACHED_STATEMENT_LENGTH
  /\ VarsLen(vars) <= MAX_CACHED_STATEMENT_PARAMS

Converted(d, c) ==
  [raised |-> d.raised, err |-> d.err, obj |-> d.obj, cache |-> c.cache,
   outcome |-> c.outcome]

\* PostgresQuery.convert after c = f(bquery, self._encoding): the tuple
\* assignment unless f raised, then self.dump(vars)
PgAssigned(o, vars, c) ==
  IF ~c.res.ok THEN Converted(Raised(c.res.err, o), c)
  ELSE Converted(dump([o EXCEPT !.query = c.res.query,
                                !.want_formats = Some(c.res.formats),
                                !.order = c.res.order,
                                !.parts = c.res.parts,
                                !.has_parts = TRUE], vars), c)

\* PostgresQuery.convert, the query given as bytes; cache is _query2pg's
PostgresQuery_convert(o, bquery, vars, cache) ==
  IF vars.shape # "none" THEN
    PgAssigned(o, vars,
               IF Cacheable(bquery, vars)
                 THEN _query2pg(cache, bquery, o.encoding)
               ELSE Bypass(cache, _query2pg_nocache(bquery, o.encoding)))
  ELSE
    Converted(dump([o EXCEPT !.query = bquery, !.want_formats = None,
                             !.order = NoOrder], vars),
              [cache |-> cache, outcome |-> "none"])

\* PostgresClientQuery.convert after c = f(bquery, self._encoding): the tuple
\* assignment unless f raised, then self.dump(vars)
ClientAssigned(o, vars, c) ==
  IF ~c.res.ok THEN Converted(Raised(c.res.err, o), c)
  ELSE Converted(dump([o EXCEPT !.template = c.res.template,
                                !.order = c.res.order,
                                !.parts = c.res.parts,
                                !.has_parts = TRUE], vars), c)

\* PostgresClientQuery.convert, the query given as bytes; cache is
\* _query2pg_client's
PostgresClientQuery_convert(o, bquery, vars, cache) ==
  IF vars.shape # "none" THEN
    ClientAssigned(o, vars,
                   IF Cacheable(bquery, vars)
                     THEN _query2pg_client(cache, bquery, o.encoding)
                   ELSE Bypass(cache, _query2pg_client_nocache(bquery, o.encoding)))
  ELSE
    Converted(dump([o EXCEPT !.query = bquery, !.order = NoOrder], vars),
              [cache |-> cache, outcome |-> "none"])

convert(o, bquery, vars, cache) ==
  IF o.cls = "PostgresQuery" THEN PostgresQuery_convert(o, bquery, vars, cache)
  ELSE PostgresClientQuery_convert(o, bquery, vars, cache)

\* ------------------------------------------------------------ state

VARIABLES
  obj,           \* the query object convert and dump are called on
  cache_pg,      \* the table of _query2pg
  cache_client,  \* the table of _query2pg_client
  last,          \* the last call made on obj: its arguments and how it ended
  conv,          \* the most recent convert call on obj
  calls,         \* the number of calls made so far
  inp,           \* the arguments the pure functions are applied to
  out,           \* the result of the pure function applied last
  ctx            \* the execution contexts calling the memoized functions

vars == << obj, cache_pg, cache_client, last, conv, calls, inp, out, ctx >>

Classes == {"PostgresQuery", "PostgresClientQuery"}
Encodings == {"utf-8", "latin-1"}

\* the number of calls made on one object in a run
MaxCalls == 3

NoCall ==
  [op |-> "none", query |-> <<>>, vars |-> NoVars, raised |-> FALSE, err |-> "",
   outcome |-> "none"]
NoConvert == [has |-> FALSE, query |-> <<>>, vars |-> NoVars, raised |-> FALSE]

\* ------------------------------------------------------------ inputs

N_a == << "a" >>
N_b == << "b" >>
\* the name e-acute in UTF-8, two bytes
N_e == << "0xC3", "0xA9" >>

Q_one == << "x", "%", "s" >>
Q_two == << "%", "s", "%", "%", "%", "t" >>
Q_named == << "%", "(", "a", ")", "s", "%", "(", "b", ")", "t", "%", "(", "a", ")", "s" >>
Q_conflict == << "%", "(", "a", ")", "s", "%", "(", "a", ")", "t" >>
Q_bad == << "%", "d" >>
Q_stray == << "x", "%" >>
Q_plain == << "x" >>

\* the queries and params the calls on one object are drawn from
BindQueries == {Q_one, Q_two, Q_named, Q_conflict, Q_bad, Q_stray, Q_plain}

BindVars ==
  {NoVars, SeqVars(<<>>), SeqVars(<< "1" >>), SeqVars(<< "2" >>),
   SeqVars(<< "2", "None" >>), SeqVars(<< "1", "2" >>),
   MapVars(<<>>, <<>>), MapVars(<< N_a, N_b >>, << "1", "None" >>),
   MapVars(<< N_a, N_b >>, << "2", "1" >>), MapVars(<< N_a >>, << "2" >>),
   StrVars(<< "a" >>)}

\* ------------------------------------------------------------ actions

\* obj.convert(bquery, v)
Convert(bquery, v) ==
  /\ calls < MaxCalls
  /\ \E r \in {convert(obj, bquery, v,
                          IF obj.cls = "PostgresQuery" THEN cache_pg ELSE cache_client)} :
        /\ obj' = r.obj
        /\ cache_pg' = IF obj.cls = "PostgresQuery" THEN r.cache ELSE cache_pg
        /\ cache_client' = IF obj.cls = "PostgresQuery" THEN cache_client ELSE r.cache
        /\ last' = [op |-> "convert", query |-> bquery, vars |-> v,
                    raised |-> r.raised, err |-> r.err, outcome |-> r.outcome]
        /\ conv' = [has |-> TRUE, query |-> bquery, vars |-> v, raised |-> r.raised]
  /\ calls' = calls + 1
  /\ UNCHANGED << inp, out, ctx >>

\* obj.dump(v)
Dump(v) ==
  /\ calls < MaxCalls
  /\ \E r \in {dump(obj, v)} :
        /\ obj' = r.obj
        /\ last' = [op |-> "dump", query |-> <<>>, vars |-> v,
                    raised |-> r.raised, err |-> r.err, outcome |-> "none"]
  /\ calls' = calls + 1
  /\ UNCHANGED << cache_pg, cache_client, conv, inp, out, ctx >>

NoInput == [toks |-> <<>>, query |-> <<>>, encoding |-> "utf-8", vars |-> NoVars]
NoOutput == [op |-> "none"]

Init ==
  /\ obj \in {NewQuery(cls, "utf-8") : cls \in Classes}
  /\ cache_pg = <<>>
  /\ cache_client = <<>>
  /\ last = NoCall
  /\ conv = NoConvert
  /\ calls = 0
  /\ inp = NoInput
  /\ out = NoOutput
  /\ ctx = <<>>

Next ==
  \/ \E q \in BindQueries, v \in BindVars : Convert(q, v)
  \/ \E v \in BindVars : Dump(v)

Spec == Init /\ [][Next]_vars

\* ------------------------------------------------------------ calls around the cache thresholds
\* The same calls, on queries and params at and above
\* MAX_CACHED_STATEMENT_LENGTH and MAX_CACHED_STATEMENT_PARAMS.

\* MAX_CACHED_STATEMENT_LENGTH bytes, and one more
Q_edge == << PAD >> \o << "%", "s" >>
Q_long == << PAD >> \o << "x", "%", "s" >>
Q_a == << "%", "(", "a", ")", "s" >>

CacheQueries == {Q_one, Q_edge, Q_long, Q_a}

\* a mapping of n keys, 'a' the first of them
MapOfSize(n) ==
  MapVars([i \in 1..n |-> IF i = 1 THEN N_a ELSE << "k" >> \o Decimal(i)],
          [i \in 1..n |-> "1"])

\* params of one item, of MAX_CACHED_STATEMENT_PARAMS items, and of one more
CacheVars ==
  {NoVars, SeqVars(<< "1" >>), MapOfSize(MAX_CACHED_STATEMENT_PARAMS),
   MapOfSize(MAX_CACHED_STATEMENT_PARAMS + 1)}

InitCache ==
  /\ obj \in {NewQuery(cls, encoding) : cls \in Classes, encoding \in Encodings}
  /\ cache_pg = <<>>
  /\ cache_client = <<>>
  /\ last = NoCall
  /\ conv = NoConvert
  /\ calls = 0
  /\ inp = NoInput
  /\ out = NoOutput
  /\ ctx = <<>>

NextCache ==
  \/ \E q \in CacheQueries, v \in CacheVars : Convert(q, v)
  \/ \E v \in CacheVars : Dump(v)

SpecCache == InitCache /\ [][NextCache]_vars

\* ------------------------------------------------------------ concurrent calls
\* Several execution contexts calling _query2pg and _query2pg_client, as
\* convert does for cacheable input.  A call of an lru_cache wrapper is a
\* lookup, then on a miss the wrapped function, then the insertion; other
\* contexts run between the lookup and the insertion.

\* the number of execution contexts
NumCtx == 2

Q_accent == << "%", "(" >> \o N_e \o << ")", "s" >>

ConcQueries == {Q_one, Q_accent, Q_bad}

IdleCtx ==
  [pc |-> "idle", cls |-> "none", query |-> <<>>, encoding |-> "utf-8",
   returned |-> FALSE, res |-> PgErr(""), raced |-> FALSE]

\* what the function of class cls computes without a cache
Uncached(cls, query, encoding) ==
  IF cls = "PostgresQuery" THEN _query2pg_nocache(query, encoding)
  ELSE _query2pg_client_nocache(query, encoding)

CacheOf(cls) == IF cls = "PostgresQuery" THEN cache_pg ELSE cache_client

\* the caches after the call of class cls left its cache as c
SetCache(cls, c) ==
  /\ cache_pg' = IF cls = "PostgresQuery" THEN c ELSE cache_pg
  /\ cache_client' = IF cls = "PostgresQuery" THEN cache_client ELSE c

\* context i calls the memoized function of class cls: the lookup, and on a
\* hit the return
Lookup(i, cls, query, encoding) ==
  /\ calls < MaxCalls
  /\ ctx[i].pc = "idle"
  /\ \E key \in {CacheKey(query, encoding)} :
       IF CacheIndex(CacheOf(cls), key) > 0
         THEN \E h \in {CacheHit(CacheOf(cls), CacheIndex(CacheOf(cls), key))} :
                /\ SetCache(cls, h.cache)
                /\ ctx' = [ctx EXCEPT ![i] = [pc |-> "idle", cls |-> cls,
                                              query |-> query, encoding |-> encoding,
                                              returned |-> TRUE, res |-> h.res,
                                              raced |-> FALSE]]
       ELSE /\ ctx' = [ctx EXCEPT ![i] = [pc |-> "computing", cls |-> cls,
                                          query |-> query, encoding |-> encoding,
                                          returned |-> FALSE, res |-> PgErr(""),
                                          raced |-> FALSE]]
            /\ UNCHANGED << cache_pg, cache_client >>
  /\ calls' = calls + 1
  /\ UNCHANGED << obj, last, conv, inp, out >>

\* the wrapped function of context i returns or raises: the insertion, and
\* the return
Complete(i) ==
  /\ ctx[i].pc = "computing"
  /\ \E m \in {CacheMiss(CacheOf(ctx[i].cls), CacheKey(ctx[i].query, ctx[i].encoding),
                          Uncached(ctx[i].cls, ctx[i].query, ctx[i].encoding))} :
       /\ SetCache(ctx[i].cls, m.cache)
       /\ ctx' = [ctx EXCEPT ![i] = [@ EXCEPT !.pc = "idle", !.returned = TRUE,
                                               !.res = m.res,
                                               !.raced = m.cache = CacheOf(ctx[i].cls)]]
  /\ UNCHANGED << obj, last, conv, calls, inp, out >>

InitConc ==
  /\ obj = NewQuery("PostgresQuery", "utf-8")
  /\ cache_pg = <<>>
  /\ cache_client = <<>>
  /\ last = NoCall
  /\ conv = NoConvert
  /\ calls = 0
  /\ inp = NoInput
  /\ out = NoOutput
  /\ ctx = [i \in 1..NumCtx |-> IdleCtx]

NextConc ==
  \/ \E i \in 1..NumCtx, cls \in Classes, q \in ConcQueries, e \in Encodings :
       Lookup(i, cls, q, e)
  \/ \E i \in 1..NumCtx : Complete(i)

SpecConc == InitConc /\ [][NextConc]_vars

\* ------------------------------------------------------------ the pure functions
\* The scanner, the assemblers and the validator, applied to queries built
\* from a vocabulary of tokens: literal characters, the escape '%%', positional
\* and named placeholders, and the pieces malformed placeholders are made of.

\* the number of tokens of a query
MaxToks == 3

Lit(c) == [kind |-> "lit", bytes |-> << c >>, name |-> <<>>, format |-> ""]
Esc == [kind |-> "esc", bytes |-> << "%", "%" >>, name |-> <<>>, format |-> ""]
Pos(f) == [kind |-> "pos", bytes |-> << "%", f >>, name |-> <<>>, format |-> f]
Named(n, f) ==
  [kind |-> "named", bytes |-> << "%", "(" >> \o n \o << ")", f >>, name |-> n,
   format |-> f]
Raw(bs) == [kind |-> "raw", bytes |-> bs, name |-> <<>>, format |-> ""]


Vocabulary ==
  {Lit("x"), Lit("\n"), Lit(" "), Lit("("), Esc, Pos("s"), Pos("t"),
   Named(N_a, "s"), Named(N_a, "t"), Named(N_b, "s"), Named(N_e, "s"),
   Raw(<< "%" >>), Raw(<< "%", "(", "a", ")" >>)}

RECURSIVE SeqsUpTo(_, _)
SeqsUpTo(S, n) ==
  IF n = 0 THEN {<<>>}
  ELSE LET T == SeqsUpTo(S, n - 1)
       IN T \cup {Append(t, x) : t \in {u \in T : Len(u) = n - 1}, x \in S}

TokSeqs == SeqsUpTo(Vocabulary, MaxToks)

TokBytes(toks) == Concat([i \in 1..Len(toks) |-> toks[i].bytes])

\* the params validate_and_reorder_params is applied to
PureVars ==
  {SeqVars(<<>>), SeqVars(<< "1" >>), SeqVars(<< "1", "2" >>),
   MapVars(<<>>, <<>>), MapVars(<< N_a >>, << "1" >>),
   MapVars(<< N_a, N_b >>, << "2", "None" >>), StrVars(<< "a" >>)}

InitPure ==
  /\ inp \in {[toks |-> t, query |-> TokBytes(t), encoding |-> e, vars |-> NoVars] :
                t \in TokSeqs, e \in Encodings}
  /\ out = NoOutput
  /\ obj = NewQuery("PostgresQuery", "utf-8")
  /\ cache_pg = <<>>
  /\ cache_client = <<>>
  /\ last = NoCall
  /\ conv = NoConvert
  /\ calls = 0
  /\ ctx = <<>>

Idle == UNCHANGED << obj, cache_pg, cache_client, last, conv, calls, ctx >>

\* _split_query(query, encoding, collapse)
SplitQuery(collapse) ==
  /\ out.op = "none"
  /\ out' = [op |-> "split", collapse |-> collapse,
             res |-> _split_query(inp.query, inp.encoding, collapse)]
  /\ UNCHANGED inp
  /\ Idle

\* _query2pg_nocache(query, encoding)
Query2Pg ==
  /\ out.op = "none"
  /\ out' = [op |-> "pg", res |-> _query2pg_nocache(inp.query, inp.encoding)]
  /\ UNCHANGED inp
  /\ Idle

\* _query2pg_client_nocache(query, encoding)
Query2PgClient ==
  /\ out.op = "none"
  /\ out' = [op |-> "pgc", res |-> _query2pg_client_nocache(inp.query, inp.encoding)]
  /\ UNCHANGED inp
  /\ Idle

\* validate_and_reorder_params(parts, v, order) as dump calls it, parts and
\* order those of _query2pg_nocache or of _query2pg_client_nocache
Validate(v, client) ==
  /\ out.op = "none"
  /\ \E pg \in {IF client THEN _query2pg_client_nocache(inp.query, inp.encoding)
                 ELSE [ok |-> _query2pg_nocache(inp.query, inp.encoding).ok,
                       parts |-> _query2pg_nocache(inp.query, inp.encoding).parts,
                       order |-> _query2pg_nocache(inp.query, inp.encoding).order]} :
       /\ pg.ok
       /\ out' = [op |-> "validate", client |-> client, parts |-> pg.parts,
                  order |-> pg.order,
                  res |-> validate_and_reorder_params(pg.parts, v, pg.order)]
  /\ inp' = [inp EXCEPT !.vars = v]
  /\ Idle

NextPure ==
  \/ \E c \in BOOLEAN : SplitQuery(c)
  \/ Query2Pg
  \/ Query2PgClient
  \/ \E v \in PureVars, client \in BOOLEAN : Validate(v, client)

SpecPure == InitPure /\ [][NextPure]_vars

\* ------------------------------------------------------------ the placeholder grammar
\* What the claims call a query: its tokens, read off the token sequence it
\* was built from, and the legal '%' sequences, read off the bytes.

KindsOf(toks) == {toks[i].kind : i \in 1..Len(toks)}

NamedAt(toks) == {i \in 1..Len(toks) : toks[i].kind = "named"}
PosAt(toks) == {i \in 1..Len(toks) : toks[i].kind = "pos"}

\* only literals, '%%' and positional placeholders
IsPositionalQuery(toks) == KindsOf(toks) \subseteq {"lit", "esc", "pos"}

\* only literals, '%%' and named placeholders, one at least, and no name with
\* two format letters
IsNamedQuery(toks) ==
  /\ KindsOf(toks) \subseteq {"lit", "esc", "named"}
  /\ NamedAt(toks) # {}
  /\ \A i, j \in NamedAt(toks) : toks[i].name = toks[j].name => toks[i].format = toks[j].format

\* the number of placeholders among the first i tokens
RECURSIVE PosUpTo(_, _)
PosUpTo(toks, i) ==
  IF i = 0 THEN 0 ELSE PosUpTo(toks, i - 1) + (IF toks[i].kind = "pos" THEN 1 ELSE 0)

\* the names of the named placeholders among the first i tokens, in order
RECURSIVE NamesUpTo(_, _)
NamesUpTo(toks, i) ==
  IF i = 0 THEN <<>>
  ELSE IF toks[i].kind = "named" THEN Append(NamesUpTo(toks, i - 1), toks[i].name)
  ELSE NamesUpTo(toks, i - 1)

\* a sequence without its repeats, first occurrences kept in order
RECURSIVE Distinct(_)
Distinct(xs) ==
  IF xs = <<>> THEN <<>>
  ELSE LET d == Distinct(SubSeq(xs, 1, Len(xs) - 1))
           x == xs[Len(xs)]
       IN IF \E j \in 1..Len(d) : d[j] = x THEN d ELSE Append(d, x)

IndexIn(xs, x) == CHOOSE j \in 1..Len(xs) : xs[j] = x

\* the text the claims expect of server-bind: the N-th positional placeholder
\* is '$N', a named one '$k' for the k-th distinct name, '%%' is '%'
ExpectedToken(toks, i) ==
  CASE toks[i].kind = "pos" -> << "$" >> \o Decimal(PosUpTo(toks, i))
    [] toks[i].kind = "named" ->
         << "$" >> \o Decimal(IndexIn(Distinct(NamesUpTo(toks, Len(toks))), toks[i].name))
    [] toks[i].kind = "esc" -> << "%" >>
    [] OTHER -> toks[i].bytes

ExpectedQuery(toks) == Concat([i \in 1..Len(toks) |-> ExpectedToken(toks, i)])

\* the format letters of the positional placeholders, in order
RECURSIVE PosFormats(_, _)
PosFormats(toks, i) ==
  IF i = 0 THEN <<>>
  ELSE IF toks[i].kind = "pos" THEN Append(PosFormats(toks, i - 1), toks[i].format)
  ELSE PosFormats(toks, i - 1)

\* the format letter of the first occurrence of a name
FirstFormat(toks, name) ==
  toks[CHOOSE i \in NamedAt(toks) :
         /\ toks[i].name = name
         /\ \A j \in NamedAt(toks) : toks[j].name = name => i <= j].format

DecodedNames(names, encoding) == [j \in 1..Len(names) |-> Decode(names[j], encoding).s]

\* every '%' from position i on starts '%%', '%s', '%b', '%t' or '%(name)'
\* followed by 's', 'b' or 't'
RECURSIVE LegalFrom(_, _)
LegalFrom(q, i) ==
  IF i > Len(q) THEN TRUE
  ELSE IF q[i] # "%" THEN LegalFrom(q, i + 1)
  ELSE IF i = Len(q) THEN FALSE
  ELSE IF q[i + 1] \in {"%", "s", "b", "t"} THEN LegalFrom(q, i + 2)
  ELSE IF q[i + 1] = "(" /\ i + 2 <= Len(q) /\ q[i + 2] # ")"
    THEN LET k == FirstClose(q, i + 3)
         IN /\ k > 0
            /\ k + 1 <= Len(q)
            /\ q[k + 1] \in {"s", "b", "t"}
            /\ LegalFrom(q, k + 2)
  ELSE FALSE

HasIllegalPercent(q) == ~LegalFrom(q, 1)

\* ------------------------------------------------------------ claims on the pure functions

\* C1: validate_and_reorder_params fails with the "positional placeholders
\* require a sequence" TypeError for every query with at least one positional
\* placeholder and every mapping, the empty mapping included, and returns no
\* aligned sequence.
C1_MappingRejected ==
  (/\ out.op = "validate"
   /\ Len(out.parts) > 1
   /\ out.parts[1].item.int
   /\ inp.vars.shape = "map")
  => (~out.res.ok /\ out.res.err = E_POSITIONAL)

\* What the validator does for mappings on positional queries: it fails so
\* for every mapping that is not empty.
NonEmptyMappingRejected ==
  (/\ out.op = "validate"
   /\ Len(out.parts) > 1
   /\ out.parts[1].item.int
   /\ inp.vars.shape = "map"
   /\ VarsLen(inp.vars) > 0)
  => (~out.res.ok /\ out.res.err = E_POSITIONAL)

\* C3: for a query of literals, '%%' and positional placeholders,
\* _query2pg_nocache succeeds, the N-th placeholder from the left (from 1, '%%'
\* not counted) becomes '$N' with every fragment left in place and '%%' turned
\* into '%', formats holds the format letter of each placeholder in order, one
\* per placeholder, and the name-order list is None.
C3_PositionalRewrite ==
  (out.op = "pg" /\ IsPositionalQuery(inp.toks))
  => /\ out.res.ok
     /\ out.res.query = ExpectedQuery(inp.toks)
     /\ out.res.formats = PosFormats(inp.toks, Len(inp.toks))
     /\ Len(out.res.formats) = Cardinality(PosAt(inp.toks))
     /\ out.res.order = NoOrder

\* C3 is met by a query with two placeholders around a '%%'.
C3_Witness ==
  /\ out.op = "pg"
  /\ IsPositionalQuery(inp.toks)
  /\ Cardinality(PosAt(inp.toks)) >= 2
  /\ "esc" \in KindsOf(inp.toks)
  /\ out.res.ok

\* C4: for a query of literals, '%%' and named placeholders without a format
\* conflict, _query2pg_nocache gives the k-th distinct name (by first
\* occurrence) the marker '$k' at each of its occurrences, and its formats and
\* name-order lists hold one entry per distinct name in that order;
\* _query2pg_client_nocache's name-order list holds one entry per occurrence,
\* repeats included, in order of occurrence.
C4_NamedRewrite ==
  IsNamedQuery(inp.toks)
  => LET names == DecodedNames(NamesUpTo(inp.toks, Len(inp.toks)), inp.encoding)
         firsts == Distinct(NamesUpTo(inp.toks, Len(inp.toks)))
     IN /\ out.op = "pg"
           => /\ out.res.ok
              /\ out.res.query = ExpectedQuery(inp.toks)
              /\ out.res.order = Order(Distinct(names))
              /\ out.res.formats = [j \in 1..Len(firsts) |-> FirstFormat(inp.toks, firsts[j])]
              /\ Len(out.res.order.names) = Len(firsts)
        /\ out.op = "pgc"
           => /\ out.res.ok
              /\ out.res.order = Order(names)
              /\ Len(out.res.order.names) = Cardinality(NamedAt(inp.toks))

\* C4 is met by a server-bind query that repeats one of two names.
C4_Witness ==
  /\ out.op = "pg"
  /\ IsNamedQuery(inp.toks)
  /\ Cardinality(NamedAt(inp.toks)) = 3
  /\ Len(out.res.order.names) = 2
  /\ inp.toks[1].name = inp.toks[3].name

\* C5: _split_query fails, collapsing or not, for every query in which some
\* '%' does not start '%s', '%b', '%t', '%(name)s', '%(name)b', '%(name)t' or
\* '%%', a '%' at the end of the query or before a newline included.
C5_SyntaxClosed ==
  (out.op = "split" /\ HasIllegalPercent(inp.query)) => ~out.res.ok

\* What the scanner does: it fails for every such query unless some '%' is the
\* last byte or stands before a newline.
IllegalPercentRejected ==
  (/\ out.op = "split"
   /\ HasIllegalPercent(inp.query)
   /\ out.res.ok)
  => \E i \in 1..Len(inp.query) :
       /\ inp.query[i] = "%"
       /\ i = Len(inp.query) \/ inp.query[i + 1] = "\n"

\* ------------------------------------------------------------ claims on convert and dump

\* the errors of the scanner, of the assembler and of the validator
BindErrors ==
  {"incomplete placeholder", "incomplete placeholder: '%'",
   "only '%s', '%b', '%t' are allowed",
   "positional and named placeholders cannot be mixed",
   "placeholder cannot have different formats",
   E_SHAPE, E_COUNT, E_NAMED, E_POSITIONAL, E_MISSING}

\* C2: a convert call that raises a scanner error, a format conflict, a shape
\* mismatch, a count mismatch or a missing parameter leaves query, params,
\* types and formats of the object as they were before the call, on both
\* classes.
C2_NoPartialSuccess ==
  [][(/\ calls' = calls + 1
      /\ last'.op = "convert"
      /\ last'.raised
      /\ last'.err \in BindErrors)
       => Outputs(obj') = Outputs(obj)]_vars

\* A convert call that the scanner or the assembler stops leaves the outputs
\* as they were; so does every such call on PostgresClientQuery.
NoPartialSuccessBeforeDump ==
  [][(/\ calls' = calls + 1
      /\ last'.op = "convert"
      /\ last'.raised
      /\ last'.err \in BindErrors
      /\ \/ obj.cls = "PostgresClientQuery"
         \/ last'.err \notin {E_SHAPE, E_COUNT, E_NAMED, E_POSITIONAL, E_MISSING})
       => Outputs(obj') = Outputs(obj)]_vars

\* what convert(bquery, v) gives on a new object of the class and encoding of o
FreshConvert(o, bquery, v) == convert(NewQuery(o.cls, o.encoding), bquery, v, <<>>)

IsDigit(c) == c \in {"0", "1", "2", "3", "4", "5", "6", "7", "8", "9"}
DigitVal(c) == CHOOSE n \in 0..9 : Digit(n) = c

\* the end of the run of digits of q that starts at j, j - 1 when there is none
RECURSIVE DigitsEnd(_, _)
DigitsEnd(q, j) ==
  IF j <= Len(q) /\ IsDigit(q[j]) THEN DigitsEnd(q, j + 1) ELSE j - 1

\* the number written in q[a..b]
RECURSIVE NumberAt(_, _, _)
NumberAt(q, a, b) ==
  IF a > b THEN 0 ELSE NumberAt(q, a, b - 1) * 10 + DigitVal(q[b])

\* q from byte i on, each marker '$k' replaced by mark(k)
RECURSIVE ReplaceMarkers(_, _, _, _)
ReplaceMarkers(q, i, subst, percent) ==
  IF i > Len(q) THEN <<>>
  ELSE IF q[i] = "$" /\ DigitsEnd(q, i + 1) > i
    THEN LET k == NumberAt(q, i + 1, DigitsEnd(q, i + 1))
         IN (IF k \in 1..Len(subst) THEN subst[k] ELSE <<>>)
            \o ReplaceMarkers(q, DigitsEnd(q, i + 1) + 1, subst, percent)
  ELSE IF q[i] = "%" THEN percent \o ReplaceMarkers(q, i + 1, subst, percent)
  ELSE << q[i] >> \o ReplaceMarkers(q, i + 1, subst, percent)

\* the server-bind query with the literal of the k-th parameter for '$k'
WithLiterals(q, params) ==
  ReplaceMarkers(q, 1, [k \in 1..Len(params) |-> Literal(params[k])], << "%" >>)

\* the server-bind query with '%s' for every marker and '%%' for every '%'
AsTemplate(q, n) ==
  ReplaceMarkers(q, 1, [k \in 1..n |-> << "%", "s" >>], << "%", "%" >>)

\* the params of the last call as the validator aligns them with the
\* placeholders of o
Aligned(o, v) == validate_and_reorder_params(o.parts, v, o.order).params

\* the client-bind object agrees with the server-bind object o that accepted
\* (bquery, v)
Agrees(o, bquery, v, c) ==
  /\ ~c.raised
  /\ c.obj.template = AsTemplate(o.query, Len(o.parts))
  /\ c.obj.query = WithLiterals(o.query, Aligned(o, v))

\* C6: for every query and non-null parameter set that server-bind convert
\* accepts, client-bind convert succeeds too, its template is the server-bind
\* query with '%%' where that has '%' (and '%s' for the markers), and its final
\* query is the server-bind query with the literal of the k-th aligned
\* parameter in place of each '$k'.
C6_VariantsAgree ==
  (/\ last.op = "convert"
   /\ ~last.raised
   /\ last.vars.shape # "none"
   /\ obj.cls = "PostgresQuery")
  => Agrees(obj, last.query, last.vars,
            convert(NewQuery("PostgresClientQuery", obj.encoding),
                    last.query, last.vars, <<>>))

\* The two variants agree on every accepted call whose query has no illegal
\* '%' and whose params are not a mapping given to positional placeholders.
AgreeOnLegalInput ==
  (/\ last.op = "convert"
   /\ ~last.raised
   /\ last.vars.shape # "none"
   /\ obj.cls = "PostgresQuery"
   /\ ~HasIllegalPercent(last.query)
   /\ ~(last.vars.shape = "map" /\ Len(obj.parts) > 1 /\ obj.parts[1].item.int))
  => Agrees(obj, last.query, last.vars,
            convert(NewQuery("PostgresClientQuery", obj.encoding),
                    last.query, last.vars, <<>>))

\* C7: a convert call with non-null params goes through the memoized
\* function, a hit or a miss, exactly when the query is at most 4096 bytes
\* long and the params are at most 50, and through the uncached function
\* otherwise; a query longer than 4096 bytes is a key of neither cache and a
\* query the memoized function accepted is a key of its cache.
C7_CacheAdmission ==
  /\ \A j \in 1..Len(cache_pg) : BytesLen(cache_pg[j].key.query) <= 4096
  /\ \A j \in 1..Len(cache_client) : BytesLen(cache_client[j].key.query) <= 4096
  /\ (last.op = "convert" /\ last.vars.shape # "none")
     => IF BytesLen(last.query) <= 4096 /\ VarsLen(last.vars) <= 50
          THEN /\ last.outcome \in {"hit", "miss"}
               /\ CacheIndex(IF obj.cls = "PostgresQuery" THEN cache_pg ELSE cache_client,
                             CacheKey(last.query, obj.encoding)) > 0
        ELSE last.outcome = "bypass"

\* C7 is met by the third accepted call in a row that bypasses the cache for
\* a query of 4097 bytes, the cache of the class still empty.
C7_Witness ==
  /\ calls = MaxCalls
  /\ last.op = "convert"
  /\ ~last.raised
  /\ last.outcome = "bypass"
  /\ BytesLen(last.query) = 4097
  /\ conv.query = last.query
  /\ cache_pg = <<>>
  /\ cache_client = <<>>

\* C8: after convert(q, v1) accepted non-null v1, a dump(v2) that accepts
\* non-null v2 leaves query, params, types and formats as convert(q, v2)
\* leaves them on a new object, on both classes.
C8_Rebinding ==
  (/\ last.op = "dump"
   /\ ~last.raised
   /\ last.vars.shape # "none"
   /\ conv.has
   /\ ~conv.raised
   /\ conv.vars.shape # "none")
  => /\ ~FreshConvert(obj, conv.query, last.vars).raised
     /\ Outputs(obj) = Outputs(FreshConvert(obj, conv.query, last.vars).obj)

\* C8 is met by a server-bind dump of two params other than those of the
\* convert before it.
C8_Witness ==
  /\ last.op = "dump"
  /\ ~last.raised
  /\ conv.has
  /\ ~conv.raised
  /\ conv.vars.shape = "seq"
  /\ last.vars.shape = "seq"
  /\ last.vars # conv.vars
  /\ obj.cls = "PostgresQuery"
  /\ ~obj.params.none
  /\ Len(obj.params.v) = 2
  /\ obj.types # FreshConvert(obj, conv.query, conv.vars).obj.types

\* C10: a dump(vars) with non-null vars, on an object whose most recent
\* convert was given the query q (with null or non-null params), validates
\* vars against the parts of q and, on PostgresClientQuery, builds the query
\* from the template of q, never from those of a query given to an earlier
\* convert.
C10_FollowsLatestConvert ==
  (/\ last.op = "dump"
   /\ last.vars.shape # "none"
   /\ conv.has
   /\ ~conv.raised
   /\ obj.has_parts)
  => /\ Uncached(obj.cls, conv.query, obj.encoding).ok
     /\ obj.parts = Uncached(obj.cls, conv.query, obj.encoding).parts
     /\ obj.cls = "PostgresClientQuery"
        => obj.template = Uncached(obj.cls, conv.query, obj.encoding).template

\* dump follows the latest convert when that convert was given non-null params.
FollowsLatestBoundConvert ==
  (/\ last.op = "dump"
   /\ last.vars.shape # "none"
   /\ conv.has
   /\ ~conv.raised
   /\ conv.vars.shape # "none")
  => /\ last.raised = FreshConvert(obj, conv.query, last.vars).raised
     /\ ~last.raised => obj.query = FreshConvert(obj, conv.query, last.vars).obj.query

\* ------------------------------------------------------------ claims on concurrent calls

\* C9: under every interleaving of the calls of several contexts, each call
\* that has returned got what the uncached function of its class computes for
\* its (query, encoding), and every entry of either cache holds what the
\* uncached function of that cache computes for the entry's key.
C9_ConcurrentCalls ==
  /\ \A i \in 1..Len(ctx) :
       ctx[i].returned
       => ctx[i].res = Uncached(ctx[i].cls, ctx[i].query, ctx[i].encoding)
  /\ \A j \in 1..Len(cache_pg) :
       cache_pg[j].val
         = Uncached("PostgresQuery", cache_pg[j].key.query, cache_pg[j].key.encoding)
  /\ \A j \in 1..Len(cache_client) :
       cache_client[j].val
         = Uncached("PostgresClientQuery", cache_client[j].key.query,
                    cache_client[j].key.encoding)

\* C9 is met when a context finds at its insertion the key another context
\* stored since its lookup, the other cache holding the same key.
C9_Witness ==
  /\ \E i \in 1..Len(ctx) :
       /\ ctx[i].returned
       /\ ctx[i].raced
       /\ ctx[i].res.ok
       /\ CacheIndex(cache_pg, CacheKey(ctx[i].query, ctx[i].encoding)) > 0
       /\ CacheIndex(cache_client, CacheKey(ctx[i].query, ctx[i].encoding)) > 0

====
